---- MODULE Spec2Model ----
(***************************************************************************)
(* Model of the folder Reconciler of plantas/nombre.py: for every          *)
(* scientific name it fuzzy-matches a directory of the base directory      *)
(* (difflib.get_close_matches, n=1, cutoff=0.6), renames it to the name    *)
(* with underscores, and renumbers the image files inside it.              *)
(*                                                                         *)
(* A string is a sequence of one-character strings; Ord gives the code     *)
(* point Python compares strings by.                                       *)
(***************************************************************************)
EXTENDS Integers, Sequences, FiniteSets, TLC

\* ------------------------------------------------------------------------
\* Bounds of the model
\* ------------------------------------------------------------------------
MaxNames == 2
MaxDirs == 2
MaxFiles == 2
MaxFairFiles == 1
MaxBatchDirs == 2
MaxBatchFiles == 3

\* ------------------------------------------------------------------------
\* Inputs: the scientific names of the spreadsheet, the directories of the
\* base directory and the files inside them
\* ------------------------------------------------------------------------
\* values of the column nombre_cientifico: two similar names
NombresPosibles ==
  { <<"F", " ", "a">>, <<"F", " ", "a", "b">> }

\* names of directories found under ruta_base: an exact match of F_a, a
\* close one (0.67), and two that stay below the cutoff (0.33 and 0.4)
CarpetasPosibles ==
  { <<"F", "_", "a">>, <<"F", "_", "b">>, <<"a", "_", "F">>, <<"F", "x">> }

\* names of files found inside a directory: an image sorting before the
\* numbered names, one sorting after them with an upper-case extension, a
\* file that is no image, and two names the renumbering of F_a produces itself
ArchivosPosibles ==
  { <<"A", ".", "j", "p", "g">>,
    <<"w", ".", "J", "P", "E", "G">>,
    <<"f", "o", "o", ".", "t", "x", "t">>,
    <<"F", "_", "a", "_", "0", "1", ".", "j", "p", "g">>,
    <<"F", "_", "a", "_", "0", "1", ".", "p", "n", "g">> }

\* ------------------------------------------------------------------------
\* Strings
\* ------------------------------------------------------------------------
Ord ==
  (" " :> 32) @@ ("." :> 46) @@
  ("0" :> 48) @@ ("1" :> 49) @@ ("2" :> 50) @@ ("3" :> 51) @@ ("4" :> 52) @@
  ("5" :> 53) @@ ("6" :> 54) @@ ("7" :> 55) @@ ("8" :> 56) @@ ("9" :> 57) @@
  ("A" :> 65) @@ ("E" :> 69) @@ ("F" :> 70) @@ ("G" :> 71) @@ ("J" :> 74) @@ ("P" :> 80) @@
  ("Z" :> 90) @@ ("_" :> 95) @@
  ("a" :> 97) @@ ("b" :> 98) @@ ("e" :> 101) @@ ("f" :> 102) @@ ("g" :> 103) @@
  ("j" :> 106) @@ ("n" :> 110) @@ ("o" :> 111) @@ ("p" :> 112) @@ ("t" :> 116) @@
  ("w" :> 119) @@ ("x" :> 120) @@ ("y" :> 121) @@ ("z" :> 122)

\* The order of Python's str comparison (used by sorted and by tuple
\* comparison inside heapq.nlargest): lexicographic on code points.
StrLess(s, t) ==
  \E k \in 1..(Len(t)) :
    /\ \A m \in 1..(k - 1) : m <= Len(s) /\ s[m] = t[m]
    /\ \/ k = Len(s) + 1
       \/ k <= Len(s) /\ Ord[s[k]] < Ord[t[k]]

\* str.lower() on one character and on a string
LowerChar(c) ==
  IF Ord[c] >= 65 /\ Ord[c] <= 90
  THEN CHOOSE d \in DOMAIN Ord : Ord[d] = Ord[c] + 32
  ELSE c

Lower(s) == [k \in 1..Len(s) |-> LowerChar(s[k])]

\* nombre_cientifico.replace(" ", "_")
ReplaceSpaces(s) == [k \in 1..Len(s) |-> IF s[k] = " " THEN "_" ELSE s[k]]

\* os.path.splitext(archivo)[1] of a bare file name: the part from the last
\* dot on, unless only dots precede that dot.
SplitExt(s) ==
  LET dots == {k \in 1..Len(s) : s[k] = "."}
  IN  IF dots = {} THEN <<>>
      ELSE LET dotIndex == CHOOSE k \in dots : \A m \in dots : m <= k
           IN  IF \E m \in 1..(dotIndex - 1) : s[m] # "."
               THEN SubSeq(s, dotIndex, Len(s))
               ELSE <<>>

DigitChar(d) == <<"0", "1", "2", "3", "4", "5", "6", "7", "8", "9">>[d + 1]

RECURSIVE Decimal(_)
Decimal(n) == IF n < 10 THEN <<DigitChar(n)>>
              ELSE Append(Decimal(n \div 10), DigitChar(n % 10))

\* f"{contador:02d}"
Fmt02(n) == IF n < 10 THEN <<"0">> \o Decimal(n) ELSE Decimal(n)

\* sorted(...) of a set of distinct names
Sorted(S) ==
  [k \in 1..Cardinality(S) |->
     CHOOSE s \in S : Cardinality({t \in S : StrLess(t, s)}) = k - 1]

\* ------------------------------------------------------------------------
\* difflib.SequenceMatcher with a = the candidate, b = the word, as
\* get_close_matches sets them (set_seq2(word), set_seq1(x)); no junk.
\* ------------------------------------------------------------------------
Min(x, y) == IF x <= y THEN x ELSE y

\* find_longest_match(alo, ahi, blo, bhi) over the half-open ranges
\* alo..ahi-1 and blo..bhi-1 (positions from 1): the longest block, of those
\* the one starting earliest in a, of those the one starting earliest in b.
FindLongestMatch(a, b, alo, ahi, blo, bhi) ==
  LET blocks == {m \in (alo..(ahi - 1)) \X (blo..(bhi - 1)) \X (1..Min(ahi - alo, bhi - blo)) :
                   /\ m[1] + m[3] <= ahi
                   /\ m[2] + m[3] <= bhi
                   /\ \A t \in 0..(m[3] - 1) : a[m[1] + t] = b[m[2] + t]}
  IN  IF blocks = {} THEN <<alo, blo, 0>>
      ELSE CHOOSE m \in blocks :
             \A o \in blocks :
               \/ o[3] < m[3]
               \/ o[3] = m[3] /\ m[1] < o[1]
               \/ o[3] = m[3] /\ m[1] = o[1] /\ m[2] <= o[2]

\* sum of the sizes of get_matching_blocks(): the longest block of a range
\* <<alo, ahi, blo, bhi>>, then the pieces to its left and to its right
MatchedSize(a, b) ==
  LET Ranges == (1..(Len(a) + 1)) \X (1..(Len(a) + 1))
                  \X (1..(Len(b) + 1)) \X (1..(Len(b) + 1))
      Size[q \in Ranges] ==
        LET m == FindLongestMatch(a, b, q[1], q[2], q[3], q[4])
        IN  IF m[3] = 0 THEN 0
            ELSE m[3] + Size[<<q[1], m[1], q[3], m[2]>>]
                      + Size[<<m[1] + m[3], q[2], m[2] + m[3], q[4]>>]
  IN  Size[<<1, Len(a) + 1, 1, Len(b) + 1>>]

\* _calculate_ratio(matches, length): 2.0 * matches / length, 1.0 when
\* length is 0; kept as the exact fraction <<numerator, denominator>>.
CalculateRatio(matches, length) ==
  IF length > 0 THEN <<2 * matches, length>> ELSE <<1, 1>>

Ratio(a, b) ==
  CalculateRatio(MatchedSize(a, b), Len(a) + Len(b))

\* ratio() of every directory name a run can meet with every target name,
\* computed once: <<x, word, SequenceMatcher(a=x, b=word).ratio()>>
Scores ==
  LET objetivos == {ReplaceSpaces(n) : n \in NombresPosibles}
  IN  {<<x, word, Ratio(x, word)>> :
         x \in CarpetasPosibles \cup objetivos, word \in objetivos}

\* s.ratio() with s.set_seq2(word) and s.set_seq1(x)
Score(x, word) == (CHOOSE e \in Scores : e[1] = x /\ e[2] = word)[3]

\* quick_ratio(): every element of a counts while b still has one of it left
QuickRatio(a, b) ==
  LET matches == Cardinality({k \in 1..Len(a) :
                    Cardinality({t \in 1..k : a[t] = a[k]})
                      <= Cardinality({t \in 1..Len(b) : b[t] = a[k]})})
  IN  CalculateRatio(matches, Len(a) + Len(b))

RealQuickRatio(a, b) == CalculateRatio(Min(Len(a), Len(b)), Len(a) + Len(b))

\* a cutoff of 0.4 instead of 0.6
AtLeastCutoff_LowCutoff(r) == 5 * r[1] >= 2 * r[2]

\* score >= cutoff with cutoff = 0.6 (= 3/5)
AtLeastCutoff(r) == 5 * r[1] >= 3 * r[2]

\* comparisons of two scores
ScoreLess(r, s) == r[1] * s[2] < s[1] * r[2]
ScoreEq(r, s) == r[1] * s[2] = s[1] * r[2]

\* the candidates get_close_matches keeps
Qualifies(word, x) ==
  /\ AtLeastCutoff(RealQuickRatio(x, word))
  /\ AtLeastCutoff(QuickRatio(x, word))
  /\ AtLeastCutoff(Score(x, word))

\* the tuple order turned around: the least similar candidate comes out best
PairLess_Reversed(word, x, y) ==
  \/ ScoreLess(Score(y, word), Score(x, word))
  \/ ScoreEq(Score(x, word), Score(y, word)) /\ StrLess(y, x)

\* (score, x) tuple order used by heapq.nlargest
PairLess(word, x, y) ==
  \/ ScoreLess(Score(x, word), Score(y, word))
  \/ ScoreEq(Score(x, word), Score(y, word)) /\ StrLess(x, y)

\* the best candidate whatever its score
GetCloseMatches_NoCutoff(word, possibilities) ==
  IF possibilities = {} THEN <<>>
  ELSE <<CHOOSE x \in possibilities :
           \A y \in possibilities : y = x \/ PairLess(word, y, x)>>

\* difflib.get_close_matches(word, possibilities, n=1, cutoff=0.6): the list
\* holding the best qualifying candidate, or the empty list
GetCloseMatches(word, possibilities) ==
  LET result == {x \in possibilities : Qualifies(word, x)}
  IN  IF result = {} THEN <<>>
      ELSE <<CHOOSE x \in result : \A y \in result : y = x \/ PairLess(word, y, x)>>

\* ------------------------------------------------------------------------
\* The base directory before the run
\* ------------------------------------------------------------------------
SeqsUpTo(S, n) == UNION {[1..k -> S] : k \in 0..n}

\* the directories D with the files f[d] of each, numbered in name order;
\* the number is the identity of the directory, which a rename keeps
MakeDirs(D, f) ==
  LET sd == Sorted(D)
  IN  [k \in 1..Cardinality(D) |-> [name |-> sd[k], files |-> f[sd[k]]]]

InitialDirs ==
  UNION { { MakeDirs(D, f) :
              f \in {g \in [D -> SUBSET ArchivosPosibles] :
                       Cardinality(UNION {{<<d, a>> : a \in g[d]} : d \in D}) <= MaxFiles} } :
          D \in {X \in SUBSET CarpetasPosibles : Cardinality(X) <= MaxDirs} }

VARIABLES
  baseExists,      \* whether ruta_base exists
  dirs,            \* directory identity -> [name, files]: content of ruta_base
  nombres,         \* nombres_cientificos
  idx,             \* position of nombre_cientifico in nombres
  pc,              \* position of the script
  coincidencias,   \* result of get_close_matches of this iteration
  imagenes,        \* sorted listing of the target directory
  pos,             \* position of archivo in imagenes
  contador,        \* contador
  console,         \* lines printed, as <<kind, from, to>>
  error,           \* the exception that ended the script, or "none"
  renameCount,     \* directory identity -> number of os.rename calls on it
  run,             \* 1 in the first run of the script, 2 in a re-run
  source_folder,   \* batch_rename_images: directory in walk order -> files
  naming_pattern,  \* batch_rename_images: naming_pattern
  posix,           \* whether os.rename replaces an existing file
  image_files,     \* batch_rename_images: image_files, as <<directory, file>>
  image_idx,       \* batch_rename_images: idx of the renaming loop
  printed,         \* batch_rename_images: lines printed by the loop
  batch_pc         \* position of batch_rename_images

\* the state of batch_rename_images of scripts/organize_images.py
batchVars == <<source_folder, naming_pattern, posix, image_files, image_idx,
               printed, batch_pc>>

vars == <<baseExists, dirs, nombres, idx, pc, coincidencias, imagenes, pos,
          contador, console, error, renameCount, run, batchVars>>

\* batch_rename_images is not called
BatchIdle ==
  /\ source_folder = <<>>
  /\ naming_pattern = <<>>
  /\ posix = TRUE
  /\ image_files = <<>>
  /\ image_idx = 1
  /\ printed = <<>>
  /\ batch_pc = "idle"

Init ==
  /\ baseExists \in BOOLEAN
  /\ dirs \in (IF baseExists THEN InitialDirs ELSE {<<>>})
  /\ nombres \in SeqsUpTo(NombresPosibles, MaxNames)
  /\ idx = 1
  /\ pc = "loop"
  /\ coincidencias = <<>>
  /\ imagenes = <<>>
  /\ pos = 1
  /\ contador = 1
  /\ console = <<>>
  /\ error = "none"
  /\ renameCount = [d \in DOMAIN dirs |-> 0]
  /\ run = 1
  /\ BatchIdle

\* ------------------------------------------------------------------------
\* The steps of the script
\* ------------------------------------------------------------------------
\* extensiones_validas
ExtensionesValidas ==
  { <<".", "j", "p", "g">>, <<".", "j", "p", "e", "g">>,
    <<".", "p", "n", "g">>, <<".", "J", "P", "G">> }

\* nombre_carpeta_objetivo of the current iteration
Objetivo == ReplaceSpaces(nombres[idx])

\* a listing that is empty instead of failing for a missing directory
ListDir_NeverFails(exists, d) ==
  [ok |-> TRUE, entries |-> {d[k].name : k \in DOMAIN d}]

\* os.listdir(ruta_base): the names of the entries, or FileNotFoundError
ListDir(exists, d) ==
  [ok |-> exists, entries |-> {d[k].name : k \in DOMAIN d}]

\* the directory a path of ruta_base names
DirNamed(d, n) == CHOOSE k \in DOMAIN d : d[k].name = n

\* the extension as written, not lower-cased
Ext_AsWritten(archivo) == SplitExt(archivo)

\* ext of archivo
Ext(archivo) == Lower(SplitExt(archivo))

\* nuevo_nombre
NuevoNombre(objetivo, c, ext) == objetivo \o <<"_">> \o Fmt02(c) \o ext

\* no check of the destination
PathExists_Never(files, nombre) == FALSE

\* os.path.exists(destino) inside a directory holding files
PathExists(files, nombre) == nombre \in files

\* os.rename(origen, destino) inside one directory: destino names the file
\* afterwards, whatever it named before
RenameFile(files, origen, destino) == (files \ {origen}) \cup {destino}

\* os.rename(ruta_actual, ruta_nueva) can succeed when ruta_nueva is free, or
\* (POSIX) names an empty directory, which it then replaces
CanRenameDir(d, destino) ==
  \A k \in DOMAIN d : d[k].name = destino => d[k].files = {}

RenameDirTo(d, k, destino) ==
  [m \in {n \in DOMAIN d : n = k \/ d[n].name # destino} |->
     IF m = k THEN [d[m] EXCEPT !.name = destino] ELSE d[m]]

\* contador += 1 for every valid image, renamed or not
SiguienteContador_Always(c, renamed) == c + 1

\* contador after one eligible file: += 1 after a rename only
SiguienteContador(c, renamed) == IF renamed THEN c + 1 ELSE c

Report(kind, from, to) == Append(console, <<kind, from, to>>)

\* line 20 raising: ruta_base does not exist
ListDirFails ==
  /\ pc = "loop" /\ idx <= Len(nombres)
  /\ ~ListDir(baseExists, dirs).ok
  /\ pc' = "crashed"
  /\ error' = "FileNotFoundError"
  /\ UNCHANGED <<baseExists, dirs, nombres, idx, coincidencias, imagenes, pos,
                 contador, console, renameCount, run, batchVars>>

\* lines 16-21: the next name, the listing and the search
Search ==
  /\ pc = "loop" /\ idx <= Len(nombres)
  /\ ListDir(baseExists, dirs).ok
  /\ \E nombre_carpeta_objetivo \in {Objetivo} :
     \E carpetas_actuales \in {ListDir(baseExists, dirs).entries} :
       coincidencias' = GetCloseMatches(nombre_carpeta_objetivo, carpetas_actuales)
  /\ pc' = "matched"
  /\ UNCHANGED <<baseExists, dirs, nombres, idx, imagenes, pos, contador,
                 console, error, renameCount, run, batchVars>>

\* lines 23-25: nothing found, report and continue
NoMatch ==
  /\ pc = "matched"
  /\ coincidencias = <<>>
  /\ console' = Report("nomatch", nombres[idx], <<>>)
  /\ idx' = idx + 1
  /\ pc' = "loop"
  /\ UNCHANGED <<baseExists, dirs, nombres, coincidencias, imagenes, pos,
                 contador, error, renameCount, run, batchVars>>

\* lines 27-31 when ruta_actual = ruta_nueva
KeepDir ==
  /\ pc = "matched"
  /\ coincidencias # <<>>
  /\ coincidencias[1] = Objetivo
  /\ pc' = "list"
  /\ UNCHANGED <<baseExists, dirs, nombres, idx, coincidencias, imagenes, pos,
                 contador, console, error, renameCount, run, batchVars>>

\* lines 27-33: the directory is renamed
RenameDir ==
  /\ pc = "matched"
  /\ coincidencias # <<>>
  /\ coincidencias[1] # Objetivo
  /\ CanRenameDir(dirs, Objetivo)
  /\ LET k == DirNamed(dirs, coincidencias[1])
     IN  /\ dirs' = RenameDirTo(dirs, k, Objetivo)
         /\ renameCount' = [renameCount EXCEPT ![k] = @ + 1]
  /\ console' = Report("dir", coincidencias[1], Objetivo)
  /\ pc' = "list"
  /\ UNCHANGED <<baseExists, nombres, idx, coincidencias, imagenes, pos,
                 contador, error, run, batchVars>>

\* line 32 raising OSError (permission denied, destination taken, ...)
RenameDirFails ==
  /\ pc = "matched"
  /\ coincidencias # <<>>
  /\ coincidencias[1] # Objetivo
  /\ pc' = "crashed"
  /\ error' = "OSError"
  /\ UNCHANGED <<baseExists, dirs, nombres, idx, coincidencias, imagenes, pos,
                 contador, console, renameCount, run, batchVars>>

\* lines 36-38
ListImages ==
  /\ pc = "list"
  /\ imagenes' = Sorted(dirs[DirNamed(dirs, Objetivo)].files)
  /\ contador' = 1
  /\ pos' = 1
  /\ pc' = "files"
  /\ UNCHANGED <<baseExists, dirs, nombres, idx, coincidencias, console, error,
                 renameCount, run, batchVars>>

\* lines 40-42: archivo has no valid extension
SkipFile ==
  /\ pc = "files" /\ pos <= Len(imagenes)
  /\ Ext(imagenes[pos]) \notin ExtensionesValidas
  /\ pos' = pos + 1
  /\ UNCHANGED <<baseExists, dirs, nombres, idx, pc, coincidencias, imagenes,
                 contador, console, error, renameCount, run, batchVars>>

\* lines 43-46, 50-51: destino exists
FileExists ==
  /\ pc = "files" /\ pos <= Len(imagenes)
  /\ Ext(imagenes[pos]) \in ExtensionesValidas
  /\ LET nuevo_nombre == NuevoNombre(Objetivo, contador, Ext(imagenes[pos]))
     IN  /\ PathExists(dirs[DirNamed(dirs, Objetivo)].files, nuevo_nombre)
         /\ console' = Report("exists", nuevo_nombre, <<>>)
  /\ contador' = SiguienteContador(contador, FALSE)
  /\ pos' = pos + 1
  /\ UNCHANGED <<baseExists, dirs, nombres, idx, pc, coincidencias, imagenes,
                 error, renameCount, run, batchVars>>

\* lines 43-49: archivo is renamed
RenameImage ==
  /\ pc = "files" /\ pos <= Len(imagenes)
  /\ Ext(imagenes[pos]) \in ExtensionesValidas
  /\ LET nuevo_nombre == NuevoNombre(Objetivo, contador, Ext(imagenes[pos]))
         k == DirNamed(dirs, Objetivo)
     IN  /\ ~PathExists(dirs[k].files, nuevo_nombre)
         /\ dirs' = [dirs EXCEPT ![k].files = RenameFile(@, imagenes[pos], nuevo_nombre)]
         /\ console' = Report("img", imagenes[pos], nuevo_nombre)
  /\ contador' = SiguienteContador(contador, TRUE)
  /\ pos' = pos + 1
  /\ UNCHANGED <<baseExists, nombres, idx, pc, coincidencias, imagenes, error,
                 renameCount, run, batchVars>>

\* line 47 raising OSError
RenameImageFails ==
  /\ pc = "files" /\ pos <= Len(imagenes)
  /\ Ext(imagenes[pos]) \in ExtensionesValidas
  /\ ~PathExists(dirs[DirNamed(dirs, Objetivo)].files,
                 NuevoNombre(Objetivo, contador, Ext(imagenes[pos])))
  /\ pc' = "crashed"
  /\ error' = "OSError"
  /\ UNCHANGED <<baseExists, dirs, nombres, idx, coincidencias, imagenes, pos,
                 contador, console, renameCount, run, batchVars>>

\* the inner loop is exhausted: next nombre_cientifico
NextName ==
  /\ pc = "files" /\ pos > Len(imagenes)
  /\ idx' = idx + 1
  /\ pc' = "loop"
  /\ UNCHANGED <<baseExists, dirs, nombres, coincidencias, imagenes, pos,
                 contador, console, error, renameCount, run, batchVars>>

\* the outer loop is exhausted: the script ends
Finish ==
  /\ pc = "loop" /\ idx > Len(nombres)
  /\ pc' = "done"
  /\ UNCHANGED <<baseExists, dirs, nombres, idx, coincidencias, imagenes, pos,
                 contador, console, error, renameCount, run, batchVars>>

Next ==
  \/ ListDirFails
  \/ Search
  \/ NoMatch
  \/ KeepDir
  \/ RenameDir
  \/ RenameDirFails
  \/ ListImages
  \/ SkipFile
  \/ FileExists
  \/ RenameImage
  \/ RenameImageFails
  \/ NextName
  \/ Finish

Spec == Init /\ [][Next]_vars

\* The interpreter always executes the next statement.  The temporal
\* properties are checked on the runs that start with at most MaxFairFiles
\* files below the base directory.
FilesIn(d) == UNION {{<<k, a>> : a \in d[k].files} : k \in DOMAIN d}

FairInit == Init /\ Cardinality(FilesIn(dirs)) <= MaxFairFiles

FairSpec == FairInit /\ [][Next]_vars /\ WF_vars(Next)

\* the script is started again, with the same names, on what the first
\* run left
Rerun ==
  /\ pc = "done" /\ run = 1
  /\ run' = 2
  /\ idx' = 1
  /\ pc' = "loop"
  /\ console' = <<>>
  /\ renameCount' = [d \in DOMAIN renameCount |-> 0]
  /\ UNCHANGED <<baseExists, dirs, nombres, coincidencias, imagenes, pos,
                 contador, error, batchVars>>

NextTwice == Next \/ Rerun

SpecTwice == Init /\ [][NextTwice]_vars

\* ------------------------------------------------------------------------
\* batch_rename_images(source_folder, naming_pattern) of
\* scripts/organize_images.py
\* ------------------------------------------------------------------------
\* naming_pattern values
PatronesPosibles == { <<"p">>, <<"b">> }

\* file names under source_folder: two images, one of them with an
\* upper-case extension, a file that is no image, and two names the
\* pattern p produces itself
ArchivosLote ==
  { <<"a", ".", "p", "n", "g">>,
    <<"A", ".", "J", "P", "G">>,
    <<"n", ".", "t", "x", "t">>,
    <<"p", "_", "0", "0", "0", "1", ".", "j", "p", "g">>,
    <<"p", "_", "0", "0", "0", "2", ".", "j", "p", "g">> }

\* the trees os.walk can meet: source_folder itself and the directories
\* below it, in the order of the walk, each with its files
ArbolesPosibles ==
  UNION { {t \in [1..n -> SUBSET ArchivosLote] :
             Cardinality(UNION {{<<d, f>> : f \in t[d]} : d \in 1..n}) <= MaxBatchFiles} :
          n \in 1..MaxBatchDirs }

\* str.endswith(suffix)
EndsWith(s, suffix) ==
  /\ Len(s) >= Len(suffix)
  /\ SubSeq(s, Len(s) - Len(suffix) + 1, Len(s)) = suffix

\* file.lower().endswith(('.jpg', '.jpeg', '.png'))
IsImage(file) ==
  \E suffix \in {<<".", "j", "p", "g">>, <<".", "j", "p", "e", "g">>,
                 <<".", "p", "n", "g">>} : EndsWith(Lower(file), suffix)

\* f"{idx:04d}"
Fmt04(n) ==
  LET digits == Decimal(n)
  IN  IF Len(digits) >= 4 THEN digits
      ELSE [k \in 1..(4 - Len(digits)) |-> "0"] \o digits

\* new_name = f"{naming_pattern}_{idx:04d}.jpg"
NewName(pattern, n) == pattern \o <<"_">> \o Fmt04(n) \o <<".", "j", "p", "g">>

\* the image files of a tree, as <<directory, file>>
ImagesOf(t) == UNION {{<<d, f>> : f \in {g \in t[d] : IsImage(g)}} : d \in DOMAIN t}

\* the lists the os.walk loop can build: directory after directory, the
\* files of one directory in the order the file system returns them
WalkOrders(t) ==
  LET images == ImagesOf(t)
  IN  {l \in [1..Cardinality(images) -> images] :
         /\ \A m, n \in DOMAIN l : l[m] = l[n] => m = n
         /\ \A m, n \in DOMAIN l : m < n => l[m][1] <= l[n][1]}

BatchInit ==
  /\ baseExists = FALSE
  /\ dirs = <<>>
  /\ nombres = <<>>
  /\ idx = 1
  /\ pc = "done"
  /\ coincidencias = <<>>
  /\ imagenes = <<>>
  /\ pos = 1
  /\ contador = 1
  /\ console = <<>>
  /\ error = "none"
  /\ renameCount = <<>>
  /\ run = 1
  /\ source_folder \in ArbolesPosibles
  /\ naming_pattern \in PatronesPosibles
  /\ posix \in BOOLEAN
  /\ image_files = <<>>
  /\ image_idx = 1
  /\ printed = <<>>
  /\ batch_pc = "walk"

scriptVars == <<baseExists, dirs, nombres, idx, pc, coincidencias, imagenes,
                pos, contador, console, error, renameCount, run>>

\* lines 194-200: the images are collected
Walk ==
  /\ batch_pc = "walk"
  /\ image_files' \in WalkOrders(source_folder)
  /\ printed' = Append(printed, <<"found", Len(image_files')>>)
  /\ image_idx' = 1
  /\ batch_pc' = "rename"
  /\ UNCHANGED <<source_folder, naming_pattern, posix, scriptVars>>

\* lines 203-210: os.rename(image_path, new_path) succeeds; a file that had
\* the new name is replaced
BatchRename ==
  /\ batch_pc = "rename" /\ image_idx <= Len(image_files)
  /\ LET directory == image_files[image_idx][1]
         file == image_files[image_idx][2]
         new_name == NewName(naming_pattern, image_idx)
     IN  /\ file \in source_folder[directory]
         /\ new_name \in source_folder[directory] => (posix \/ new_name = file)
         /\ source_folder' = [source_folder EXCEPT
                                ![directory] = (@ \ {file}) \cup {new_name}]
         /\ printed' = Append(printed, <<"ok", file, new_name>>)
  /\ image_idx' = image_idx + 1
  /\ UNCHANGED <<naming_pattern, posix, image_files, batch_pc, scriptVars>>

\* lines 203-212: os.rename raises (the new name is taken and the platform
\* refuses to replace it, permission denied, ...) and the error is printed
BatchRenameFails ==
  /\ batch_pc = "rename" /\ image_idx <= Len(image_files)
  /\ printed' = Append(printed, <<"error", image_files[image_idx][2]>>)
  /\ image_idx' = image_idx + 1
  /\ UNCHANGED <<source_folder, naming_pattern, posix, image_files, batch_pc,
                 scriptVars>>

\* the loop of line 203 is exhausted
BatchDone ==
  /\ batch_pc = "rename" /\ image_idx > Len(image_files)
  /\ batch_pc' = "done"
  /\ UNCHANGED <<source_folder, naming_pattern, posix, image_files, image_idx,
                 printed, scriptVars>>

BatchNext == Walk \/ BatchRename \/ BatchRenameFails \/ BatchDone

BatchSpec == BatchInit /\ [][BatchNext]_vars

\* ------------------------------------------------------------------------
\* Properties
\* ------------------------------------------------------------------------

\* C1: a second run of the script, with the same names, on what the first
\* run left renames no directory and no file.
C1_SecondRunRenamesNothing ==
  run = 2 => \A m \in 1..Len(console) : console[m][1] \notin {"dir", "img"}

\* C2: within one run no directory is renamed more than once.
C2_RenamedAtMostOnce ==
  \A k \in DOMAIN renameCount : renameCount[k] <= 1

\* C3: while the files of a directory are renumbered, a step changes the
\* directory only by giving one of its files a name that no entry of the
\* directory had, so the directory keeps the number of entries it was listed
\* with.
C3_NoOverwrite ==
  /\ [](pc = "files" =>
          Cardinality(dirs[DirNamed(dirs, Objetivo)].files) = Len(imagenes))
  /\ [][pc = "files" =>
          LET k == DirNamed(dirs, Objetivo)
              before == dirs[k].files
              after == dirs'[k].files
          IN  /\ DOMAIN dirs' = DOMAIN dirs
              /\ \A m \in DOMAIN dirs : m # k => dirs'[m] = dirs[m]
              /\ dirs'[k].name = dirs[k].name
              /\ \/ after = before
                 \/ \E n \in after \ before :
                      /\ after = (before \ {imagenes[pos]}) \cup {n}
                      /\ imagenes[pos] \in before
                      /\ Cardinality(after) = Cardinality(before)]_vars

\* a directory was renumbered in which an image kept its name because its
\* candidate name belonged to another file
C3_Witness ==
  /\ pc = "files" /\ pos > Len(imagenes)
  /\ \E m \in 1..Len(console) :
       /\ console[m][1] = "exists"
       /\ \E f \in dirs[DirNamed(dirs, Objetivo)].files :
            /\ f # console[m][2]
            /\ StrLess(f, console[m][2])
            /\ Lower(SplitExt(f)) = SplitExt(console[m][2])
            /\ console[m][2] \in dirs[DirNamed(dirs, Objetivo)].files

\* C4: whenever a file is renamed to {target}_{NN}{ext}, no file named
\* {target}_{NN} with any valid extension exists in the directory.
C4_CounterNotReused ==
  [][(pc = "files" /\ dirs' # dirs) =>
       \A e \in ExtensionesValidas :
         NuevoNombre(Objetivo, contador, e)
           \notin dirs[DirNamed(dirs, Objetivo)].files]_vars

\* C5: contador starts at 1 for every directory and changes only by +1 with
\* a rename; when the candidate name of a valid image exists, nothing is
\* renamed, contador keeps its value and the loop moves to the next file of
\* the ascending listing.
C5_Collision ==
  /\ [](pc = "files" =>
          \A m \in 1..(Len(imagenes) - 1) : StrLess(imagenes[m], imagenes[m + 1]))
  /\ [][/\ pc = "list" => contador' = 1 /\ pos' = 1
        /\ (/\ pc = "files" /\ pos <= Len(imagenes)
            /\ Lower(SplitExt(imagenes[pos])) \in ExtensionesValidas
            /\ Objetivo \o <<"_">> \o Fmt02(contador) \o Lower(SplitExt(imagenes[pos]))
                 \in dirs[DirNamed(dirs, Objetivo)].files)
           => /\ dirs' = dirs
              /\ contador' = contador
              /\ pos' = pos + 1
              /\ pc' = "files" /\ idx' = idx /\ imagenes' = imagenes
              /\ console' = Append(console,
                   <<"exists", Objetivo \o <<"_">> \o Fmt02(contador)
                                 \o Lower(SplitExt(imagenes[pos])), <<>>>>)
        /\ (pc = "files" /\ contador' # contador)
           => /\ contador' = contador + 1
              /\ imagenes[pos] \notin dirs'[DirNamed(dirs, Objetivo)].files
              /\ dirs' # dirs]_vars

\* the candidate name of the first image belonged to another file: the image
\* kept its name, contador is still 1 and the loop is at the second file
C5_Witness ==
  /\ pc = "files" /\ pos = 2 /\ pos <= Len(imagenes) /\ contador = 1
  /\ console # <<>>
  /\ console[Len(console)][1] = "exists"
  /\ console[Len(console)][2] # imagenes[1]
  /\ imagenes[1] \in dirs[DirNamed(dirs, Objetivo)].files

\* C6: when the matched directory already carries the target name it is not
\* renamed, and if no candidate name is among its files, the files whose
\* lower-cased extension is .jpg, .jpeg or .png end up, in ascending name
\* order, as {target}_01{ext}, {target}_02{ext}, ..., the other files
\* keeping their names.
C6_Renumbered ==
  /\ [](LET allowed == {<<".", "j", "p", "g">>, <<".", "j", "p", "e", "g">>,
                        <<".", "p", "n", "g">>}
            before == {imagenes[m] : m \in 1..Len(imagenes)}
            eligible == {f \in before : Lower(SplitExt(f)) \in allowed}
            rank(f) == Cardinality({g \in eligible : g = f \/ StrLess(g, f)})
            candidates == {Objetivo \o <<"_">> \o Fmt02(c) \o e :
                             c \in 1..Len(imagenes), e \in allowed}
        IN  (/\ pc = "files" /\ pos > Len(imagenes)
             /\ coincidencias[1] = Objetivo
             /\ before \cap candidates = {})
            => /\ dirs[DirNamed(dirs, Objetivo)].files =
                    {IF f \in eligible
                     THEN Objetivo \o <<"_">> \o Fmt02(rank(f)) \o Lower(SplitExt(f))
                     ELSE f : f \in before}
               /\ contador = Cardinality(eligible) + 1)
  /\ [][(pc = "matched" /\ coincidencias = <<Objetivo>>)
          => (dirs' = dirs /\ renameCount' = renameCount /\ console' = console
              /\ pc' = "list")]_vars

\* a directory already named as the target was renumbered: an image with an
\* upper-case extension and another image were renamed
C6_Witness ==
  /\ pc = "files" /\ pos > Len(imagenes)
  /\ coincidencias[1] = Objetivo
  /\ renameCount[DirNamed(dirs, Objetivo)] = 0
  /\ contador = 3
  /\ Objetivo \o <<"_", "0", "2", ".", "j", "p", "e", "g">>
       \in dirs[DirNamed(dirs, Objetivo)].files
  /\ <<"w", ".", "J", "P", "E", "G">> \in {imagenes[m] : m \in 1..Len(imagenes)}

\* C7: the entry chosen for a name is an entry of the base directory as
\* listed in that iteration, its similarity to the target is at least 0.6
\* and no listed entry is more similar; at most one entry is chosen.
C7_MatchSelection ==
  /\ Len(coincidencias) <= 1
  /\ (pc = "matched" /\ coincidencias # <<>>) =>
       LET entries == {dirs[k].name : k \in DOMAIN dirs}
           chosen == coincidencias[1]
           r == Score(chosen, Objetivo)
       IN  /\ chosen \in entries
           /\ 10 * r[1] >= 6 * r[2]
           /\ \A e \in entries :
                Score(e, Objetivo)[1] * r[2] <= r[1] * Score(e, Objetivo)[2]

\* an entry was chosen over another entry that also reaches 0.6 but is less
\* similar
C7_Witness ==
  /\ pc = "matched" /\ coincidencias # <<>>
  /\ \E k \in DOMAIN dirs :
       LET r == Score(coincidencias[1], Objetivo)
           q == Score(dirs[k].name, Objetivo)
       IN  /\ dirs[k].name # coincidencias[1]
           /\ 10 * q[1] >= 6 * q[2]
           /\ q[1] * r[2] < r[1] * q[2]

\* C8: when no entry of the base directory reaches 0.6 for a name, the
\* search finds nothing and the iteration changes no directory and no file,
\* reports the no-match and moves to the next name; when that is so for
\* every name, every name is reached and the script ends having reported one
\* no-match per name.
C8_NoMatch ==
  /\ [][(/\ pc \in {"loop", "matched"} /\ idx <= Len(nombres) /\ baseExists
         /\ \A k \in DOMAIN dirs :
              10 * Score(dirs[k].name, Objetivo)[1] < 6 * Score(dirs[k].name, Objetivo)[2])
        => /\ dirs' = dirs /\ renameCount' = renameCount /\ error' = error
           /\ pc = "loop" =>
                (coincidencias' = <<>> /\ pc' = "matched" /\ idx' = idx
                 /\ console' = console)
           /\ pc = "matched" =>
                (console' = Append(console, <<"nomatch", nombres[idx], <<>>>>)
                 /\ idx' = idx + 1 /\ pc' = "loop")]_vars
  /\ (/\ pc = "loop" /\ idx = 1 /\ baseExists /\ console = <<>>
      /\ \A m \in 1..Len(nombres) : \A k \in DOMAIN dirs :
           10 * Score(dirs[k].name, ReplaceSpaces(nombres[m]))[1]
             < 6 * Score(dirs[k].name, ReplaceSpaces(nombres[m]))[2])
     ~> (/\ pc = "done"
         /\ console = [m \in 1..Len(nombres) |-> <<"nomatch", nombres[m], <<>>>>])

\* a name found no directory although a directory with some resemblance was
\* listed, and the loop is at the next name
C8_Witness ==
  /\ pc = "loop" /\ idx = 2 /\ idx <= Len(nombres)
  /\ console = <<<<"nomatch", nombres[1], <<>>>>>>
  /\ \E k \in DOMAIN dirs : Score(dirs[k].name, ReplaceSpaces(nombres[1]))[1] > 0

\* C9: a failing os.rename does not end the run: the names after the one it
\* failed for are still processed.
C9_RenameFailureContinues ==
  ~(pc = "crashed" /\ error = "OSError" /\ idx < Len(nombres))

\* C10 as stated: without the base directory the run, whatever the names,
\* ends with the fatal error and not normally, and nothing is renamed.
C10_MissingBaseAlwaysFatal ==
  ~baseExists =>
    /\ console = <<>> /\ idx = 1 /\ DOMAIN dirs = {}
    /\ pc \in {"loop", "crashed"}
    /\ pc = "crashed" => error = "FileNotFoundError"

\* C10 amended: without the base directory nothing is renamed or reported;
\* with at least one name the run ends with FileNotFoundError in the first
\* iteration, with no name it ends normally.
C10_MissingBase ==
  ~baseExists =>
    /\ console = <<>> /\ idx = 1 /\ DOMAIN dirs = {}
    /\ pc \in {"loop", IF nombres = <<>> THEN "done" ELSE "crashed"}
    /\ pc = "crashed" => error = "FileNotFoundError"

\* the run ended with the fatal error of the missing base directory
C10_Witness ==
  ~baseExists /\ pc = "crashed" /\ error = "FileNotFoundError" /\ Len(nombres) = MaxNames

\* C11: when a matched directory is about to be renamed, no entry of the base
\* directory carries the target name, and no step of a run adds or removes an
\* entry of the base directory: none is merged into or replaced by another.
C11_RenameOntoFreeName ==
  /\ []((pc = "matched" /\ coincidencias # <<>> /\ coincidencias[1] # Objetivo)
          => \A k \in DOMAIN dirs : dirs[k].name # Objetivo)
  /\ [][DOMAIN dirs' = DOMAIN dirs]_vars
  /\ [](\A k, m \in DOMAIN dirs : dirs[k].name = dirs[m].name => k = m)

\* a directory was renamed to the target name while the base directory held
\* another directory, which is still there under its own name
C11_Witness ==
  /\ pc = "list"
  /\ console # <<>>
  /\ console[Len(console)] = <<"dir", coincidencias[1], Objetivo>>
  /\ \E k, m \in DOMAIN dirs :
       /\ k # m
       /\ dirs[k].name = Objetivo
       /\ renameCount[k] > 0
       /\ renameCount[m] = 0
       /\ AtLeastCutoff(Score(dirs[m].name, Objetivo))

\* C12: batch_rename_images loses no image: the new name of the image at
\* hand is not the name of another image of its directory, the number of
\* images under source_folder stays the number that was collected, and every
\* image of the list gets its turn whether or not its rename succeeds.
C12_NoImageLost ==
  /\ []((batch_pc = "rename" /\ image_idx <= Len(image_files))
          => LET directory == image_files[image_idx][1]
                 file == image_files[image_idx][2]
             IN  \A g \in source_folder[directory] :
                   (IsImage(g) /\ g # file) => g # NewName(naming_pattern, image_idx))
  /\ [](batch_pc \in {"rename", "done"}
          => Cardinality(ImagesOf(source_folder)) = Len(image_files))
  /\ [][(batch_pc = "rename" /\ image_idx <= Len(image_files))
          => (image_idx' = image_idx + 1 /\ batch_pc' = "rename")]_vars

====
